---- MODULE Spec2Model ----
(***************************************************************************)
(* json-keypath-iter: a lazy pre-order traversal of a serde_json::Value    *)
(* that yields, for every visited node, an Element (path text, array       *)
(* indices, reference to the node), under a Style built by StyleBuilder.   *)
(*                                                                         *)
(* Text is modelled as a sequence of one-character strings, so that        *)
(* format!() is concatenation and the rendered paths can be compared.      *)
(* A reference &Value is modelled as the address of the node: the sequence *)
(* of child positions (1-based) leading from the root to it.               *)
(***************************************************************************)
EXTENDS Integers, Sequences, FiniteSets, TLC

\* Largest number of nodes of the borrowed tree.
MaxNodes == 4
\* Largest number of next() calls that return None in one behaviour.
MaxNones == 2

(***************************************************************************)
(* Option<T>                                                               *)
(***************************************************************************)
None == <<>>
Some(v) == <<v>>
unwrap_or(opt, default) == IF opt = None THEN default ELSE opt[1]

(***************************************************************************)
(* Text                                                                    *)
(***************************************************************************)
DigitChars == <<"0", "1", "2", "3", "4", "5", "6", "7", "8", "9">>

\* Display of a usize, as format!("{}", index) renders it.
RECURSIVE usize_to_string(_)
usize_to_string(n) ==
    IF n < 10 THEN <<DigitChars[n + 1]>>
    ELSE usize_to_string(n \div 10) \o <<DigitChars[(n % 10) + 1]>>

(***************************************************************************)
(* serde_json::Value                                                       *)
(***************************************************************************)
ScalarValues == {"null", "true"}
\* The keys an object may hold, in the iteration order of serde_json's Map.
KeyList == << <<"a">>, <<"k", "1">> >>

Scalar(v) == [kind |-> "Scalar", val |-> v, keys |-> <<>>, kids |-> <<>>]
Array(kids) == [kind |-> "Array", val |-> "", keys |-> <<>>, kids |-> kids]
Object(keys, kids) == [kind |-> "Object", val |-> "", keys |-> keys, kids |-> kids]

\* Key sequences of m distinct keys in Map iteration order.
KeySeqs(m) ==
    { [i \in 1..m |-> KeyList[pos[i]]] :
        pos \in { p \in [1..m -> 1..Len(KeyList)] :
                    \A i, j \in 1..m : i < j => p[i] < p[j] } }

\* Forests[n]: the sequences of trees that have n nodes in total.
Forests[n \in 0..MaxNodes] ==
    LET TreesOfSize(k) ==
            (IF k = 1 THEN {Scalar(v) : v \in ScalarValues} ELSE {})
            \cup {Array(f) : f \in Forests[k - 1]}
            \cup UNION {{Object(ks, f) : ks \in KeySeqs(Len(f))} : f \in Forests[k - 1]}
    IN  IF n = 0 THEN {<<>>}
        ELSE UNION {{<<t>> \o f : t \in TreesOfSize(k), f \in Forests[n - k]} : k \in 1..n}

Values == UNION {{f[1] : f \in {g \in Forests[n] : Len(g) = 1}} : n \in 1..MaxNodes}

\* The node a reference points to.
RECURSIVE Deref(_, _)
Deref(json, ref) ==
    IF ref = <<>> THEN json ELSE Deref(json.kids[Head(ref)], Tail(ref))

(***************************************************************************)
(* StyleBuilder and Style                                                  *)
(***************************************************************************)
StyleBuilder_new ==
    [object_key_prefix |-> None, object_key_suffix |-> None,
     object_keys_in_path |-> None, skip_object_parents |-> None,
     array_key_prefix |-> None, array_key_suffix |-> None,
     array_keys_in_path |-> None, skip_array_parents |-> None]

default_object_key_prefix(b) == [b EXCEPT !.object_key_prefix = None]
object_key_prefix(b, value) == [b EXCEPT !.object_key_prefix = Some(value)]
default_object_key_suffix(b) == [b EXCEPT !.object_key_suffix = None]
object_key_suffix(b, value) == [b EXCEPT !.object_key_suffix = Some(value)]
default_object_keys_in_path(b) == [b EXCEPT !.object_keys_in_path = None]
show_object_keys_in_path(b) == [b EXCEPT !.object_keys_in_path = Some(TRUE)]
hide_object_keys_in_path(b) == [b EXCEPT !.object_keys_in_path = Some(FALSE)]
default_object_parents(b) == [b EXCEPT !.skip_object_parents = None]
skip_object_parents(b) == [b EXCEPT !.skip_object_parents = Some(TRUE)]
include_object_parents(b) == [b EXCEPT !.skip_object_parents = Some(FALSE)]
default_array_key_prefix(b) == [b EXCEPT !.array_key_prefix = None]
array_key_prefix(b, value) == [b EXCEPT !.array_key_prefix = Some(value)]
default_array_key_suffix(b) == [b EXCEPT !.array_key_suffix = None]
\* Mutant: the suffix setter writes the prefix field.
array_key_suffix_WritesPrefix(b, value) == [b EXCEPT !.array_key_prefix = Some(value)]
array_key_suffix(b, value) == [b EXCEPT !.array_key_suffix = Some(value)]
default_array_keys_in_path(b) == [b EXCEPT !.array_keys_in_path = None]
show_array_keys_in_path(b) == [b EXCEPT !.array_keys_in_path = Some(TRUE)]
hide_array_keys_in_path(b) == [b EXCEPT !.array_keys_in_path = Some(FALSE)]
default_array_parents(b) == [b EXCEPT !.skip_array_parents = None]
skip_array_parents(b) == [b EXCEPT !.skip_array_parents = Some(TRUE)]
include_array_parents(b) == [b EXCEPT !.skip_array_parents = Some(FALSE)]

\* Mutant: an unset skip_object_parents resolves to false.
build_ObjectParentsIncluded(b) ==
    [object_key_prefix |-> unwrap_or(b.object_key_prefix, <<"[", "\"">>),
     object_key_suffix |-> unwrap_or(b.object_key_suffix, <<"\"", "]">>),
     object_keys_in_path |-> unwrap_or(b.object_keys_in_path, TRUE),
     skip_object_parents |-> unwrap_or(b.skip_object_parents, FALSE),
     array_key_prefix |-> unwrap_or(b.array_key_prefix, <<"[">>),
     array_key_suffix |-> unwrap_or(b.array_key_suffix, <<"]">>),
     array_keys_in_path |-> unwrap_or(b.array_keys_in_path, TRUE),
     skip_array_parents |-> unwrap_or(b.skip_array_parents, TRUE)]

\* Mutant: build() refuses a configuration that hides the object keys.
build_Validating(b) ==
    IF b.object_keys_in_path = Some(FALSE)
    THEN [error |-> "ConfigurationError"]
    ELSE [object_key_prefix |-> unwrap_or(b.object_key_prefix, <<"[", "\"">>),
          object_key_suffix |-> unwrap_or(b.object_key_suffix, <<"\"", "]">>),
          object_keys_in_path |-> unwrap_or(b.object_keys_in_path, TRUE),
          skip_object_parents |-> unwrap_or(b.skip_object_parents, TRUE),
          array_key_prefix |-> unwrap_or(b.array_key_prefix, <<"[">>),
          array_key_suffix |-> unwrap_or(b.array_key_suffix, <<"]">>),
          array_keys_in_path |-> unwrap_or(b.array_keys_in_path, TRUE),
          skip_array_parents |-> unwrap_or(b.skip_array_parents, TRUE)]

build(b) ==
    [object_key_prefix |-> unwrap_or(b.object_key_prefix, <<"[", "\"">>),
     object_key_suffix |-> unwrap_or(b.object_key_suffix, <<"\"", "]">>),
     object_keys_in_path |-> unwrap_or(b.object_keys_in_path, TRUE),
     skip_object_parents |-> unwrap_or(b.skip_object_parents, TRUE),
     array_key_prefix |-> unwrap_or(b.array_key_prefix, <<"[">>),
     array_key_suffix |-> unwrap_or(b.array_key_suffix, <<"]">>),
     array_keys_in_path |-> unwrap_or(b.array_keys_in_path, TRUE),
     skip_array_parents |-> unwrap_or(b.skip_array_parents, TRUE)]

PresetStyle == {"SquareBrackets", "CommonJs", "PostgresJson"}

\* Mutant: the PostgresJson arm keeps the array suffix of the arm above it.
PresetStyle_into_StyleBuilder_PostgresSuffix(preset) ==
    CASE preset = "SquareBrackets" ->
            skip_array_parents(show_array_keys_in_path(
            array_key_suffix(array_key_prefix(
            skip_object_parents(show_object_keys_in_path(
            object_key_suffix(object_key_prefix(StyleBuilder_new,
                <<"[", "\"">>), <<"\"", "]">>))),
                <<"[">>), <<"]">>)))
      [] preset = "CommonJs" ->
            skip_array_parents(show_array_keys_in_path(
            array_key_suffix(array_key_prefix(
            skip_object_parents(show_object_keys_in_path(
            object_key_suffix(object_key_prefix(StyleBuilder_new,
                <<".">>), <<>>))),
                <<"[">>), <<"]">>)))
      [] preset = "PostgresJson" ->
            skip_array_parents(show_array_keys_in_path(
            array_key_suffix(array_key_prefix(
            skip_object_parents(show_object_keys_in_path(
            object_key_suffix(object_key_prefix(StyleBuilder_new,
                <<"-", ">", "'">>), <<"'">>))),
                <<"-", ">">>), <<"]">>)))

\* Mutant: the CommonJs preset includes array parents.
PresetStyle_into_StyleBuilder_ArrayParents(preset) ==
    CASE preset = "SquareBrackets" ->
            skip_array_parents(show_array_keys_in_path(
            array_key_suffix(array_key_prefix(
            skip_object_parents(show_object_keys_in_path(
            object_key_suffix(object_key_prefix(StyleBuilder_new,
                <<"[", "\"">>), <<"\"", "]">>))),
                <<"[">>), <<"]">>)))
      [] preset = "CommonJs" ->
            include_array_parents(show_array_keys_in_path(
            array_key_suffix(array_key_prefix(
            skip_object_parents(show_object_keys_in_path(
            object_key_suffix(object_key_prefix(StyleBuilder_new,
                <<".">>), <<>>))),
                <<"[">>), <<"]">>)))
      [] preset = "PostgresJson" ->
            skip_array_parents(show_array_keys_in_path(
            array_key_suffix(array_key_prefix(
            skip_object_parents(show_object_keys_in_path(
            object_key_suffix(object_key_prefix(StyleBuilder_new,
                <<"-", ">", "'">>), <<"'">>))),
                <<"-", ">">>), <<>>)))

\* impl From<PresetStyle> for StyleBuilder
PresetStyle_into_StyleBuilder(preset) ==
    CASE preset = "SquareBrackets" ->
            skip_array_parents(show_array_keys_in_path(
            array_key_suffix(array_key_prefix(
            skip_object_parents(show_object_keys_in_path(
            object_key_suffix(object_key_prefix(StyleBuilder_new,
                <<"[", "\"">>), <<"\"", "]">>))),
                <<"[">>), <<"]">>)))
      [] preset = "CommonJs" ->
            skip_array_parents(show_array_keys_in_path(
            array_key_suffix(array_key_prefix(
            skip_object_parents(show_object_keys_in_path(
            object_key_suffix(object_key_prefix(StyleBuilder_new,
                <<".">>), <<>>))),
                <<"[">>), <<"]">>)))
      [] preset = "PostgresJson" ->
            skip_array_parents(show_array_keys_in_path(
            array_key_suffix(array_key_prefix(
            skip_object_parents(show_object_keys_in_path(
            object_key_suffix(object_key_prefix(StyleBuilder_new,
                <<"-", ">", "'">>), <<"'">>))),
                <<"-", ">">>), <<>>)))

\* impl From<PresetStyle> for Style
PresetStyle_into_Style(preset) == build(PresetStyle_into_StyleBuilder(preset))

\* Mutant: the format arguments of the key and the prefix are exchanged.
object_format_shown_KeyFirst(style, path, key) ==
    path \o key \o style.object_key_prefix \o style.object_key_suffix

\* Style::object_format with the key text shown.
object_format_shown(style, path, key) ==
    path \o style.object_key_prefix \o key \o style.object_key_suffix

\* Style::object_format with the key text hidden.
object_format_hidden(style, path, key) ==
    path \o style.object_key_prefix \o style.object_key_suffix

object_format(style, path, key) ==
    IF style.object_keys_in_path
    THEN object_format_shown(style, path, key)
    ELSE object_format_hidden(style, path, key)

\* Mutant: the index text is written whatever the flag says.
array_format_IndexAlways(style, path, index) ==
    path \o style.array_key_prefix \o usize_to_string(index) \o style.array_key_suffix

array_format(style, path, index) ==
    IF style.array_keys_in_path
    THEN path \o style.array_key_prefix \o usize_to_string(index) \o style.array_key_suffix
    ELSE path \o style.array_key_prefix \o style.array_key_suffix

should_skip_object_parents(style) == style.skip_object_parents
should_skip_array_parents(style) == style.skip_array_parents

\* The builder of tests::custom_style_on_iter, before its flags are set.
CustomBuilder ==
    array_key_suffix(array_key_prefix(object_key_suffix(object_key_prefix(
        StyleBuilder_new, <<"!">>), <<"@">>), <<"#">>), <<"$">>)

WithFlags(b, ok, so, ak, sa) ==
    LET b1 == IF ok THEN show_object_keys_in_path(b) ELSE hide_object_keys_in_path(b)
        b2 == IF so THEN skip_object_parents(b1) ELSE include_object_parents(b1)
        b3 == IF ak THEN show_array_keys_in_path(b2) ELSE hide_array_keys_in_path(b2)
    IN  IF sa THEN skip_array_parents(b3) ELSE include_array_parents(b3)

\* The styles handed to use_style: the presets, the default delimiters with
\* both parent kinds included (tests::complex_format_on_iter), and the custom
\* delimiters under every combination of the four flags.
Styles ==
    {PresetStyle_into_Style(p) : p \in PresetStyle}
    \cup {build(include_array_parents(include_object_parents(StyleBuilder_new)))}
    \cup {build(WithFlags(CustomBuilder, ok, so, ak, sa)) :
            ok \in BOOLEAN, so \in BOOLEAN, ak \in BOOLEAN, sa \in BOOLEAN}

(***************************************************************************)
(* The historical variants: the six-field Style with its preset enums      *)
(* (style/mod.rs and style.rs) and JsonKeyPathIterBuilder (builder.rs).    *)
(***************************************************************************)
\* struct Style / struct JsonKeyPathStyle.
Style6(okp, oks, akp, aks, indices, skip) ==
    [object_key_prefix |-> okp, object_key_suffix |-> oks,
     array_key_prefix |-> akp, array_key_suffix |-> aks,
     indices_in_path |-> indices, skip_parents |-> skip]

\* enum Styles / enum JsonKeyPathStyles: a unit variant or Custom(style).
Variant(tag) == [tag |-> tag]
Custom(style_details) == [tag |-> "Custom", style |-> style_details]

\* impl From<&Styles> for Style (style/mod.rs).
Styles_into_Style(style) ==
    CASE style.tag = "SquareBrackets" ->
            Style6(<<"[", "\"">>, <<"\"", "]">>, <<"[">>, <<"]">>, TRUE, FALSE)
      [] style.tag = "CommonJs" ->
            Style6(<<".">>, <<>>, <<"[">>, <<"]">>, FALSE, FALSE)
      [] style.tag = "PostgresJson" ->
            Style6(<<"-", ">", "'">>, <<"'">>, <<"-", ">">>, <<>>, TRUE, FALSE)
      [] style.tag = "Custom" ->
            Style6(style.style.object_key_prefix, style.style.object_key_suffix,
                   style.style.array_key_prefix, style.style.array_key_suffix,
                   style.style.indices_in_path, style.style.skip_parents)

\* impl From<&JsonKeyPathStyles> for JsonKeyPathStyle (style.rs).
JsonKeyPathStyles_into_JsonKeyPathStyle(style) ==
    CASE style.tag = "SquareBrackets" ->
            Style6(<<"[", "\"">>, <<"\"", "]">>, <<"[">>, <<"]">>, TRUE, FALSE)
      [] style.tag = "CommonJs" ->
            Style6(<<".">>, <<>>, <<"[">>, <<"]">>, TRUE, FALSE)
      [] style.tag = "PostgresJson" ->
            Style6(<<"-", ">", "'">>, <<"'">>, <<"-", ">">>, <<>>, TRUE, FALSE)
      [] style.tag = "Custom" ->
            Style6(style.style.object_key_prefix, style.style.object_key_suffix,
                   style.style.array_key_prefix, style.style.array_key_suffix,
                   style.style.indices_in_path, style.style.skip_parents)

\* JsonKeyPathIterBuilder::new
JsonKeyPathIterBuilder_new ==
    [base_path |-> None, object_key_prefix |-> None, object_key_suffix |-> None,
     array_key_prefix |-> None, array_key_suffix |-> None,
     indices_in_path |-> TRUE, skip_parents |-> FALSE]

JsonKeyPathIterBuilder_base_path(b, value) == [b EXCEPT !.base_path = Some(value)]
JsonKeyPathIterBuilder_object_key_prefix(b, value) ==
    [b EXCEPT !.object_key_prefix = Some(value)]
JsonKeyPathIterBuilder_object_key_suffix(b, value) ==
    [b EXCEPT !.object_key_suffix = Some(value)]
JsonKeyPathIterBuilder_array_key_prefix(b, value) ==
    [b EXCEPT !.array_key_prefix = Some(value)]
JsonKeyPathIterBuilder_array_key_suffix(b, value) ==
    [b EXCEPT !.array_key_suffix = Some(value)]
JsonKeyPathIterBuilder_show_indices_in_path(b) == [b EXCEPT !.indices_in_path = TRUE]
JsonKeyPathIterBuilder_hide_indices_in_path(b) == [b EXCEPT !.indices_in_path = FALSE]
JsonKeyPathIterBuilder_skip_parents(b) == [b EXCEPT !.skip_parents = TRUE]

\* Mutant: show_parents sets the flag like skip_parents does.
JsonKeyPathIterBuilder_show_parents_Skips(b) == [b EXCEPT !.skip_parents = TRUE]

JsonKeyPathIterBuilder_show_parents(b) == [b EXCEPT !.skip_parents = FALSE]

\* Result::Ok
Ok(v) == [ok |-> TRUE, value |-> v]

\* The combined flags on the axes of the Style that next() reads: the one
\* skip flag governs objects and arrays alike, object keys are always shown.
DownLevel(s) ==
    [object_key_prefix |-> s.object_key_prefix,
     object_key_suffix |-> s.object_key_suffix,
     object_keys_in_path |-> TRUE,
     skip_object_parents |-> s.skip_parents,
     array_key_prefix |-> s.array_key_prefix,
     array_key_suffix |-> s.array_key_suffix,
     array_keys_in_path |-> s.indices_in_path,
     skip_array_parents |-> s.skip_parents]

\* JsonKeyPathIter::new: the queue holds the root at base_path.
JsonKeyPathIter_new(base_path, okp, oks, akp, aks, indices_in_path, skip_parents, json) ==
    [style |-> DownLevel(Style6(okp, oks, akp, aks, indices_in_path, skip_parents)),
     items |-> <<[path |-> base_path, indices |-> <<>>, value |-> <<>>]>>,
     json |-> json]

\* JsonKeyPathIterBuilder::build
JsonKeyPathIterBuilder_build(b, json) ==
    Ok(JsonKeyPathIter_new(
        unwrap_or(b.base_path, <<>>),
        unwrap_or(b.object_key_prefix, <<>>),
        unwrap_or(b.object_key_suffix, <<>>),
        unwrap_or(b.array_key_prefix, <<>>),
        unwrap_or(b.array_key_suffix, <<>>),
        b.indices_in_path,
        b.skip_parents,
        json))

(***************************************************************************)
(* Iter                                                                    *)
(***************************************************************************)
VARIABLES
    json,       \* the borrowed tree
    style,      \* Iter.style
    items,      \* Iter.items, the VecDeque of pending Elements, front first
    running,    \* TRUE while a call of next() is inside its loop
    calls,      \* the number of next() calls that have returned
    result,     \* what the last call of next() returned: None or Some(el)
    nones,      \* history: how many calls returned None
    yielded,    \* history: the Elements returned so far, in order
    popped,     \* history: the references popped from the queue, in order
    other,      \* a second Iter over the same tree (None when there is none)
    builder,    \* a StyleBuilder the caller chains calls on
    hist,       \* history of the calls made on builder
    converted,  \* the last conversion of a preset enum value (None before one)
    iterBuilder \* a JsonKeyPathIterBuilder the caller chains calls on (None when there is none)

vars == <<json, style, items, running, calls, result, nones, yielded, popped,
          other, builder, hist,
                   converted, iterBuilder>>

\* The options of a StyleBuilder.
Options ==
    {"object_key_prefix", "object_key_suffix", "object_keys_in_path",
     "skip_object_parents", "array_key_prefix", "array_key_suffix",
     "array_keys_in_path", "skip_array_parents"}

\* No call has been made on the builder. last[o] is the argument of the last
\* call on option o (None for a default_* call and for no call); preset is
\* the preset the builder was converted from, while no call followed; built
\* tells that build() was called and its Style handed to use_style.
NoCalls == [last |-> [o \in Options |-> None], preset |-> "none", built |-> FALSE]

Element(path, indices, value) == [path |-> path, indices |-> indices, value |-> value]

\* Mutant: push_back in place of push_front.
push_front_Back(queue, el) == queue \o <<el>>

push_front(queue, el) == <<el>> \o queue

\* Mutant: the children are pushed to the front without .rev().
RECURSIVE PushFrontForward(_, _)
PushFrontForward(queue, els) ==
    IF els = <<>> THEN queue
    ELSE PushFrontForward(push_front(queue, els[1]), Tail(els))

\* for x in xs.iter().rev() { queue.push_front(x) }
RECURSIVE PushFrontRev(_, _)
PushFrontRev(queue, els) ==
    IF els = <<>> THEN queue
    ELSE PushFrontRev(push_front(queue, els[Len(els)]), SubSeq(els, 1, Len(els) - 1))

\* The Elements next() builds for the entries of an object.
ObjectChildren(el, obj) ==
    [i \in 1..Len(obj.kids) |->
        Element(object_format(style, el.path, obj.keys[i]), el.indices, el.value \o <<i>>)]

\* Mutant: the index is put in front of the parent's indices.
ArrayChildren_IndexFirst(el, arr) ==
    [i \in 1..Len(arr.kids) |->
        Element(array_format(style, el.path, i - 1), <<i - 1>> \o el.indices,
                el.value \o <<i>>)]

\* The Elements next() builds for the items of an array (enumerate() counts from 0).
ArrayChildren(el, arr) ==
    [i \in 1..Len(arr.kids) |->
        Element(array_format(style, el.path, i - 1), el.indices \o <<i - 1>>,
                el.value \o <<i>>)]

\* Iter::new: the queue holds the root, the style is SquareBrackets.
Init ==
    /\ json \in Values
    /\ style = PresetStyle_into_Style("SquareBrackets")
    /\ items = <<Element(<<>>, <<>>, <<>>)>>
    /\ running = FALSE
    /\ calls = 0
    /\ result = None
    /\ nones = 0
    /\ yielded = <<>>
    /\ popped = <<>>
    /\ other = None
    /\ builder = StyleBuilder_new
    /\ hist = NoCalls
    /\ converted = None
    /\ iterBuilder = None

\* Iter::use_style, chained on the constructor as in every test.
UseStyle ==
    /\ ~running
    /\ calls = 0
    /\ \E s \in Styles : style' = s
    /\ UNCHANGED <<json, items, running, calls, result, nones, yielded, popped,
                 other, builder, hist,
                   converted, iterBuilder>>

\* A caller may start a call of next(); a started call runs on.
MayStep == running \/ nones < MaxNones

Return(r) ==
    /\ running' = FALSE
    /\ calls' = calls + 1
    /\ result' = r
    /\ nones' = IF r = None THEN nones + 1 ELSE nones
    /\ yielded' = IF r = None THEN yielded ELSE Append(yielded, r[1])

Continue ==
    /\ running' = TRUE
    /\ UNCHANGED <<calls, result, nones, yielded>>

\* Mutant: a suppressed object ends the call with None instead of `continue`.
PopObject_NoneOnSkip ==
    /\ MayStep
    /\ items # <<>>
    /\ LET el == Head(items)
           obj == Deref(json, el.value)
       IN  /\ obj.kind = "Object"
           /\ items' = PushFrontRev(Tail(items), ObjectChildren(el, obj))
           /\ popped' = Append(popped, el.value)
           /\ IF should_skip_object_parents(style) THEN Return(None) ELSE Return(Some(el))
    /\ UNCHANGED <<json, style, other, builder, hist,
                   converted, iterBuilder>>

\* Mutant: the object is read with front() and stays in the queue.
PopObject_Front ==
    /\ MayStep
    /\ items # <<>>
    /\ LET el == Head(items)
           obj == Deref(json, el.value)
       IN  /\ obj.kind = "Object"
           /\ items' = PushFrontRev(items, ObjectChildren(el, obj))
           /\ popped' = popped
           /\ IF should_skip_object_parents(style) THEN Continue ELSE Return(Some(el))
    /\ UNCHANGED <<json, style, other, builder, hist,
                   converted, iterBuilder>>

\* Mutant: the entries of the object are visited in an arbitrary order.
PopObject_Unordered ==
    /\ MayStep
    /\ items # <<>>
    /\ LET el == Head(items)
           obj == Deref(json, el.value)
           n == Len(obj.kids)
       IN  /\ obj.kind = "Object"
           /\ \E p \in {q \in [1..n -> 1..n] : \A a, b \in 1..n : a # b => q[a] # q[b]} :
                items' = PushFrontRev(Tail(items),
                            [i \in 1..n |-> ObjectChildren(el, obj)[p[i]]])
           /\ popped' = Append(popped, el.value)
           /\ IF should_skip_object_parents(style) THEN Continue ELSE Return(Some(el))
    /\ UNCHANGED <<json, style, other, builder, hist,
                   converted, iterBuilder>>

\* Mutant: a suppressed object is dropped with its entries.
PopObject_SkipDropsChildren ==
    /\ MayStep
    /\ items # <<>>
    /\ LET el == Head(items)
           obj == Deref(json, el.value)
       IN  /\ obj.kind = "Object"
           /\ items' = IF should_skip_object_parents(style) THEN Tail(items)
                       ELSE PushFrontRev(Tail(items), ObjectChildren(el, obj))
           /\ popped' = Append(popped, el.value)
           /\ IF should_skip_object_parents(style) THEN Continue ELSE Return(Some(el))
    /\ UNCHANGED <<json, style, other, builder, hist,
                   converted, iterBuilder>>

\* One turn of the loop of next() on an object.
PopObject ==
    /\ MayStep
    /\ items # <<>>
    /\ LET el == Head(items)
           obj == Deref(json, el.value)
       IN  /\ obj.kind = "Object"
           /\ items' = PushFrontRev(Tail(items), ObjectChildren(el, obj))
           /\ popped' = Append(popped, el.value)
           /\ IF should_skip_object_parents(style) THEN Continue ELSE Return(Some(el))
    /\ UNCHANGED <<json, style, other, builder, hist,
                   converted, iterBuilder>>

\* Mutant: an empty array is passed over even when array parents are included.
PopArray_EmptyPassedOver ==
    /\ MayStep
    /\ items # <<>>
    /\ LET el == Head(items)
           arr == Deref(json, el.value)
       IN  /\ arr.kind = "Array"
           /\ items' = PushFrontRev(Tail(items), ArrayChildren(el, arr))
           /\ popped' = Append(popped, el.value)
           /\ IF should_skip_array_parents(style) \/ arr.kids = <<>>
              THEN Continue ELSE Return(Some(el))
    /\ UNCHANGED <<json, style, other, builder, hist,
                   converted, iterBuilder>>

\* Mutant: the array arm asks the object flag.
PopArray_ObjectFlag ==
    /\ MayStep
    /\ items # <<>>
    /\ LET el == Head(items)
           arr == Deref(json, el.value)
       IN  /\ arr.kind = "Array"
           /\ items' = PushFrontRev(Tail(items), ArrayChildren(el, arr))
           /\ popped' = Append(popped, el.value)
           /\ IF should_skip_object_parents(style) THEN Continue ELSE Return(Some(el))
    /\ UNCHANGED <<json, style, other, builder, hist,
                   converted, iterBuilder>>

\* One turn of the loop of next() on an array.
PopArray ==
    /\ MayStep
    /\ items # <<>>
    /\ LET el == Head(items)
           arr == Deref(json, el.value)
       IN  /\ arr.kind = "Array"
           /\ items' = PushFrontRev(Tail(items), ArrayChildren(el, arr))
           /\ popped' = Append(popped, el.value)
           /\ IF should_skip_array_parents(style) THEN Continue ELSE Return(Some(el))
    /\ UNCHANGED <<json, style, other, builder, hist,
                   converted, iterBuilder>>

\* Mutant: the scalar is read with front() and stays in the queue.
PopScalar_Peek ==
    /\ MayStep
    /\ items # <<>>
    /\ Len(yielded) <= MaxNodes
    /\ LET el == Head(items)
       IN  /\ Deref(json, el.value).kind = "Scalar"
           /\ items' = items
           /\ popped' = popped
           /\ Return(Some(el))
    /\ UNCHANGED <<json, style, other, builder, hist,
                   converted, iterBuilder>>

\* One turn of the loop of next() on any other value.
PopScalar ==
    /\ MayStep
    /\ items # <<>>
    /\ LET el == Head(items)
       IN  /\ Deref(json, el.value).kind = "Scalar"
           /\ items' = Tail(items)
           /\ popped' = Append(popped, el.value)
           /\ Return(Some(el))
    /\ UNCHANGED <<json, style, other, builder, hist,
                   converted, iterBuilder>>

\* pop_front() finds the queue empty: the loop ends and next() returns None.
Exhausted ==
    /\ MayStep
    /\ items = <<>>
    /\ Return(None)
    /\ UNCHANGED <<json, style, items, popped, other, builder, hist,
                   converted, iterBuilder>>

Next ==
    \/ UseStyle
    \/ PopObject
    \/ PopArray
    \/ PopScalar
    \/ Exhausted

Spec == Init /\ [][Next]_vars

(***************************************************************************)
(* The caller's chain on a StyleBuilder: StyleBuilder::new() or a preset's *)
(* builder, any setter and default_* calls, then build() and use_style on  *)
(* a fresh Iter.                                                           *)
(***************************************************************************)
\* The text a caller passes to a delimiter setter.
DelimChoices == {<<>>, <<"!">>}

iterVars == <<json, items, running, calls, result, nones, yielded, popped, other,
              converted, iterBuilder>>

\* A chained call on the builder: it returns the builder `after`.
Chain(option, arg, after) ==
    /\ ~hist.built
    /\ builder' = after
    /\ hist' = [hist EXCEPT !.last[option] = arg, !.preset = "none"]
    /\ UNCHANGED <<iterVars, style>>

Call_default_object_key_prefix ==
    Chain("object_key_prefix", None, default_object_key_prefix(builder))
Call_object_key_prefix ==
    \E v \in DelimChoices :
        Chain("object_key_prefix", Some(v), object_key_prefix(builder, v))
Call_default_object_key_suffix ==
    Chain("object_key_suffix", None, default_object_key_suffix(builder))
Call_object_key_suffix ==
    \E v \in DelimChoices :
        Chain("object_key_suffix", Some(v), object_key_suffix(builder, v))
Call_default_object_keys_in_path ==
    Chain("object_keys_in_path", None, default_object_keys_in_path(builder))
Call_show_object_keys_in_path ==
    Chain("object_keys_in_path", Some(TRUE), show_object_keys_in_path(builder))
Call_hide_object_keys_in_path ==
    Chain("object_keys_in_path", Some(FALSE), hide_object_keys_in_path(builder))
Call_default_object_parents ==
    Chain("skip_object_parents", None, default_object_parents(builder))
Call_skip_object_parents ==
    Chain("skip_object_parents", Some(TRUE), skip_object_parents(builder))
Call_include_object_parents ==
    Chain("skip_object_parents", Some(FALSE), include_object_parents(builder))
Call_default_array_key_prefix ==
    Chain("array_key_prefix", None, default_array_key_prefix(builder))
Call_array_key_prefix ==
    \E v \in DelimChoices :
        Chain("array_key_prefix", Some(v), array_key_prefix(builder, v))
Call_default_array_key_suffix ==
    Chain("array_key_suffix", None, default_array_key_suffix(builder))
Call_array_key_suffix ==
    \E v \in DelimChoices :
        Chain("array_key_suffix", Some(v), array_key_suffix(builder, v))
Call_default_array_keys_in_path ==
    Chain("array_keys_in_path", None, default_array_keys_in_path(builder))
Call_show_array_keys_in_path ==
    Chain("array_keys_in_path", Some(TRUE), show_array_keys_in_path(builder))
Call_hide_array_keys_in_path ==
    Chain("array_keys_in_path", Some(FALSE), hide_array_keys_in_path(builder))
Call_default_array_parents ==
    Chain("skip_array_parents", None, default_array_parents(builder))
Call_skip_array_parents ==
    Chain("skip_array_parents", Some(TRUE), skip_array_parents(builder))
Call_include_array_parents ==
    Chain("skip_array_parents", Some(FALSE), include_array_parents(builder))

\* The arguments of the eight calls the conversion of a preset chains.
PresetCalls(p) ==
    [o \in Options |->
        CASE o = "object_key_prefix" ->
                Some(CASE p = "SquareBrackets" -> <<"[", "\"">>
                       [] p = "CommonJs" -> <<".">>
                       [] p = "PostgresJson" -> <<"-", ">", "'">>)
          [] o = "object_key_suffix" ->
                Some(CASE p = "SquareBrackets" -> <<"\"", "]">>
                       [] p = "CommonJs" -> <<>>
                       [] p = "PostgresJson" -> <<"'">>)
          [] o = "array_key_prefix" ->
                Some(CASE p = "SquareBrackets" -> <<"[">>
                       [] p = "CommonJs" -> <<"[">>
                       [] p = "PostgresJson" -> <<"-", ">">>)
          [] o = "array_key_suffix" ->
                Some(CASE p = "SquareBrackets" -> <<"]">>
                       [] p = "CommonJs" -> <<"]">>
                       [] p = "PostgresJson" -> <<>>)
          [] OTHER -> Some(TRUE)]

\* let builder: StyleBuilder = preset.into(): the chain of eight calls of
\* the conversion, each option called once.
FromPreset ==
    /\ ~hist.built
    /\ hist = NoCalls
    /\ \E p \in PresetStyle :
        /\ builder' = PresetStyle_into_StyleBuilder(p)
        /\ hist' = [last |-> PresetCalls(p), preset |-> p, built |-> FALSE]
    /\ UNCHANGED <<iterVars, style>>

\* Iter::new(&json).use_style(builder.build())
BuildAndUse ==
    /\ ~hist.built
    /\ ~running /\ calls = 0
    /\ style' = build(builder)
    /\ hist' = [hist EXCEPT !.built = TRUE]
    /\ UNCHANGED <<iterVars, builder>>

\* The document of tests::null_to_iter, over which no call of next() is made.
BuilderInit ==
    /\ Init
    /\ json = Scalar("null")

BuilderNext ==
    \/ Call_default_object_key_prefix
    \/ Call_object_key_prefix
    \/ Call_default_object_key_suffix
    \/ Call_object_key_suffix
    \/ Call_default_object_keys_in_path
    \/ Call_show_object_keys_in_path
    \/ Call_hide_object_keys_in_path
    \/ Call_default_object_parents
    \/ Call_skip_object_parents
    \/ Call_include_object_parents
    \/ Call_default_array_key_prefix
    \/ Call_array_key_prefix
    \/ Call_default_array_key_suffix
    \/ Call_array_key_suffix
    \/ Call_default_array_keys_in_path
    \/ Call_show_array_keys_in_path
    \/ Call_hide_array_keys_in_path
    \/ Call_default_array_parents
    \/ Call_skip_array_parents
    \/ Call_include_array_parents
    \/ FromPreset
    \/ BuildAndUse

BuilderSpec == BuilderInit /\ [][BuilderNext]_vars

\* A call of next() that has started runs on: the loop is synchronous code.
(***************************************************************************)
(* Two Iters over one borrowed Value: the first is the Iter of the         *)
(* variables above, the second is held in `other`; the caller interleaves  *)
(* their next() calls at will.                                             *)
(***************************************************************************)
MaxPairNodes == 3

PairValues ==
    UNION {{f[1] : f \in {g \in Forests[n] : Len(g) = 1}} : n \in 1..MaxPairNodes}

\* The delimiters and visibilities the two Iters are styled with.
PairBuilders ==
    {show_array_keys_in_path(show_object_keys_in_path(StyleBuilder_new)),
     hide_array_keys_in_path(hide_object_keys_in_path(CustomBuilder))}

WithParents(b, so, sa) ==
    LET b1 == IF so THEN skip_object_parents(b) ELSE include_object_parents(b)
    IN  IF sa THEN skip_array_parents(b1) ELSE include_array_parents(b1)

\* Iter::new(&json).use_style(s), as a value.
NewIter(s) ==
    [style |-> s, items |-> <<Element(<<>>, <<>>, <<>>)>>, running |-> FALSE,
     nones |-> 0, yielded |-> <<>>]

PairInit ==
    /\ json \in PairValues
    /\ \E b \in PairBuilders, so \in BOOLEAN, sa \in BOOLEAN :
        /\ style = build(WithParents(b, so, sa))
        /\ other \in {NewIter(style), NewIter(build(WithParents(b, FALSE, FALSE)))}
    /\ items = <<Element(<<>>, <<>>, <<>>)>>
    /\ running = FALSE
    /\ calls = 0
    /\ result = None
    /\ nones = 0
    /\ yielded = <<>>
    /\ popped = <<>>
    /\ builder = StyleBuilder_new
    /\ hist = NoCalls
    /\ converted = None
    /\ iterBuilder = None

OtherMayStep == other.running \/ other.nones < MaxNones

OtherReturn(it, r) ==
    [it EXCEPT !.running = FALSE,
               !.nones = IF r = None THEN @ + 1 ELSE @,
               !.yielded = IF r = None THEN @ ELSE Append(@, r[1])]

OtherContinue(it) == [it EXCEPT !.running = TRUE]

OtherObjectChildren(el, obj) ==
    [i \in 1..Len(obj.kids) |->
        Element(object_format(other.style, el.path, obj.keys[i]), el.indices,
                el.value \o <<i>>)]

OtherArrayChildren(el, arr) ==
    [i \in 1..Len(arr.kids) |->
        Element(array_format(other.style, el.path, i - 1), el.indices \o <<i - 1>>,
                el.value \o <<i>>)]

otherFrame == <<json, style, items, running, calls, result, nones, yielded, popped,
                builder, hist,
                   converted, iterBuilder>>

\* One turn of the loop of the second Iter's next() on an object.
OtherPopObject ==
    /\ OtherMayStep
    /\ other.items # <<>>
    /\ LET el == Head(other.items)
           obj == Deref(json, el.value)
           it == [other EXCEPT !.items = PushFrontRev(Tail(@), OtherObjectChildren(el, obj))]
       IN  /\ obj.kind = "Object"
           /\ other' = IF should_skip_object_parents(other.style)
                       THEN OtherContinue(it) ELSE OtherReturn(it, Some(el))
    /\ UNCHANGED otherFrame

\* One turn of the loop of the second Iter's next() on an array.
OtherPopArray ==
    /\ OtherMayStep
    /\ other.items # <<>>
    /\ LET el == Head(other.items)
           arr == Deref(json, el.value)
           it == [other EXCEPT !.items = PushFrontRev(Tail(@), OtherArrayChildren(el, arr))]
       IN  /\ arr.kind = "Array"
           /\ other' = IF should_skip_array_parents(other.style)
                       THEN OtherContinue(it) ELSE OtherReturn(it, Some(el))
    /\ UNCHANGED otherFrame

\* Mutant: the two Iters share one queue, so the second one's pop is also
\* the first one's.
OtherPopScalar_SharedQueue ==
    /\ OtherMayStep
    /\ other.items # <<>>
    /\ LET el == Head(other.items)
       IN  /\ Deref(json, el.value).kind = "Scalar"
           /\ other' = OtherReturn([other EXCEPT !.items = Tail(@)], Some(el))
           /\ items' = IF items # <<>> THEN Tail(items) ELSE items
    /\ UNCHANGED <<json, style, running, calls, result, nones, yielded, popped,
                   builder, hist,
                   converted, iterBuilder>>

\* One turn of the loop of the second Iter's next() on any other value.
OtherPopScalar ==
    /\ OtherMayStep
    /\ other.items # <<>>
    /\ LET el == Head(other.items)
       IN  /\ Deref(json, el.value).kind = "Scalar"
           /\ other' = OtherReturn([other EXCEPT !.items = Tail(@)], Some(el))
    /\ UNCHANGED otherFrame

\* The second Iter finds its queue empty.
OtherExhausted ==
    /\ OtherMayStep
    /\ other.items = <<>>
    /\ other' = OtherReturn(other, None)
    /\ UNCHANGED otherFrame

PairNext ==
    \/ PopObject
    \/ PopArray
    \/ PopScalar
    \/ Exhausted
    \/ OtherPopObject
    \/ OtherPopArray
    \/ OtherPopScalar
    \/ OtherExhausted

PairSpec == PairInit /\ [][PairNext]_vars

(***************************************************************************)
(* An Iter whose owner calls use_style again between next() calls.         *)
(***************************************************************************)
\* The styles handed to use_style in the course of a traversal.
RestyleStyles ==
    {PresetStyle_into_Style("SquareBrackets"),
     PresetStyle_into_Style("CommonJs"),
     build(include_array_parents(include_object_parents(CustomBuilder)))}

RestyleInit == Init /\ json \in PairValues

\* Mutant: use_style starts the traversal over with the new style.
UseStyleLater_Restart ==
    /\ ~running
    /\ \E s \in RestyleStyles : style' = s
    /\ items' = <<Element(<<>>, <<>>, <<>>)>>
    /\ UNCHANGED <<json, running, calls, result, nones, yielded, popped,
                   other, builder, hist,
                   converted, iterBuilder>>

\* iter = iter.use_style(s), at any point between two calls of next().
UseStyleLater ==
    /\ ~running
    /\ \E s \in RestyleStyles : style' = s
    /\ UNCHANGED <<json, items, running, calls, result, nones, yielded, popped,
                   other, builder, hist,
                   converted, iterBuilder>>

RestyleNext ==
    \/ UseStyleLater
    \/ PopObject
    \/ PopArray
    \/ PopScalar
    \/ Exhausted

RestyleSpec == RestyleInit /\ [][RestyleNext]_vars

(***************************************************************************)
(* The conversions of the three preset representations, applied to every   *)
(* value of their enums.                                                   *)
(***************************************************************************)
\* The six-field styles wrapped in Custom(..).
CustomStyles ==
    {Style6(okp, oks, akp, aks, indices, skip) :
        okp \in DelimChoices, oks \in DelimChoices,
        akp \in DelimChoices, aks \in DelimChoices,
        indices \in BOOLEAN, skip \in BOOLEAN}

EnumValues ==
    {Variant(p) : p \in PresetStyle} \cup {Custom(c) : c \in CustomStyles}

Conversion(from, input, output) ==
    Some([from |-> from, input |-> input, output |-> output])

convertFrame == <<json, style, items, running, calls, result, nones, yielded, popped,
                  other, builder, hist, iterBuilder>>

\* let s: Style = (&styles).into()
Convert_Styles ==
    /\ \E e \in EnumValues :
        converted' = Conversion("Styles", e, Styles_into_Style(e))
    /\ UNCHANGED convertFrame

\* let s: JsonKeyPathStyle = (&styles).into()
Convert_JsonKeyPathStyles ==
    /\ \E e \in EnumValues :
        converted' = Conversion("JsonKeyPathStyles", e,
                                JsonKeyPathStyles_into_JsonKeyPathStyle(e))
    /\ UNCHANGED convertFrame

\* let s: Style = preset.into()
Convert_PresetStyle ==
    /\ \E p \in PresetStyle :
        converted' = Conversion("PresetStyle", Variant(p), PresetStyle_into_Style(p))
    /\ UNCHANGED convertFrame

PresetVariantsInit == Init /\ json = Scalar("null")

PresetVariantsNext ==
    \/ Convert_Styles
    \/ Convert_JsonKeyPathStyles
    \/ Convert_PresetStyle

PresetVariantsSpec == PresetVariantsInit /\ [][PresetVariantsNext]_vars

(***************************************************************************)
(* The caller's chain on a JsonKeyPathIterBuilder, then build(&json) and   *)
(* the traversal of the iterator it returns.                               *)
(***************************************************************************)
\* No call made on the two flags yet.
NoFlagCalls == [indices_in_path |-> None, skip_parents |-> None]

iterBuilderFrame == <<json, style, items, running, calls, result, nones, yielded,
                      popped, other, builder, hist, converted>>

\* A chained call on the JsonKeyPathIterBuilder: it returns the builder `after`.
IterChain(after, last) ==
    /\ ~iterBuilder.built
    /\ iterBuilder' = [iterBuilder EXCEPT !.b = after, !.last = last]
    /\ UNCHANGED iterBuilderFrame

IterCall_base_path ==
    IterChain(JsonKeyPathIterBuilder_base_path(iterBuilder.b, <<>>), iterBuilder.last)

IterCall_object_key_prefix ==
    IterChain(JsonKeyPathIterBuilder_object_key_prefix(iterBuilder.b, <<"!">>),
              iterBuilder.last)

IterCall_object_key_suffix ==
    IterChain(JsonKeyPathIterBuilder_object_key_suffix(iterBuilder.b, <<"@">>),
              iterBuilder.last)

IterCall_array_key_prefix ==
    IterChain(JsonKeyPathIterBuilder_array_key_prefix(iterBuilder.b, <<"#">>),
              iterBuilder.last)

IterCall_array_key_suffix ==
    IterChain(JsonKeyPathIterBuilder_array_key_suffix(iterBuilder.b, <<"$">>),
              iterBuilder.last)

IterCall_show_indices_in_path ==
    IterChain(JsonKeyPathIterBuilder_show_indices_in_path(iterBuilder.b),
              [iterBuilder.last EXCEPT !.indices_in_path = Some(TRUE)])

IterCall_hide_indices_in_path ==
    IterChain(JsonKeyPathIterBuilder_hide_indices_in_path(iterBuilder.b),
              [iterBuilder.last EXCEPT !.indices_in_path = Some(FALSE)])

IterCall_skip_parents ==
    IterChain(JsonKeyPathIterBuilder_skip_parents(iterBuilder.b),
              [iterBuilder.last EXCEPT !.skip_parents = Some(TRUE)])

IterCall_show_parents ==
    IterChain(JsonKeyPathIterBuilder_show_parents(iterBuilder.b),
              [iterBuilder.last EXCEPT !.skip_parents = Some(FALSE)])

\* let iter = builder.build(&json).unwrap(): the temporary builder is gone
\* at the end of the statement.
IterBuild ==
    /\ ~iterBuilder.built
    /\ LET r == JsonKeyPathIterBuilder_build(iterBuilder.b, json)
       IN  /\ r.ok
           /\ style' = r.value.style
           /\ items' = r.value.items
    /\ iterBuilder' = [iterBuilder EXCEPT !.b = None, !.built = TRUE]
    /\ UNCHANGED <<json, running, calls, result, nones, yielded, popped, other,
                   builder, hist, converted>>

IterBuilderInit ==
    /\ json \in PairValues
    /\ style = PresetStyle_into_Style("SquareBrackets")
    /\ items = <<>>
    /\ running = FALSE
    /\ calls = 0
    /\ result = None
    /\ nones = 0
    /\ yielded = <<>>
    /\ popped = <<>>
    /\ other = None
    /\ builder = StyleBuilder_new
    /\ hist = NoCalls
    /\ converted = None
    /\ iterBuilder = [b |-> JsonKeyPathIterBuilder_new, last |-> NoFlagCalls,
                      built |-> FALSE]

IterBuilderNext ==
    \/ IterCall_base_path
    \/ IterCall_object_key_prefix
    \/ IterCall_object_key_suffix
    \/ IterCall_array_key_prefix
    \/ IterCall_array_key_suffix
    \/ IterCall_show_indices_in_path
    \/ IterCall_hide_indices_in_path
    \/ IterCall_skip_parents
    \/ IterCall_show_parents
    \/ IterBuild
    \/ iterBuilder.built /\ PopObject
    \/ iterBuilder.built /\ PopArray
    \/ iterBuilder.built /\ PopScalar
    \/ iterBuilder.built /\ Exhausted

IterBuilderSpec == IterBuilderInit /\ [][IterBuilderNext]_vars

LoopTurn == PopObject \/ PopArray \/ PopScalar \/ Exhausted
FairSpec == Spec /\ WF_vars(running /\ LoopTurn)

(***************************************************************************)
(* Vocabulary of the properties: the tree as the document describes it.    *)
(***************************************************************************)
\* The references of all nodes in the subtree of the node at ref.
RECURSIVE RefsBelow(_, _)
RefsBelow(node, ref) ==
    {ref} \cup UNION {RefsBelow(node.kids[i], ref \o <<i>>) : i \in 1..Len(node.kids)}

AllRefs == RefsBelow(json, <<>>)
NodeCount == Cardinality(AllRefs)
KindAt(ref) == Deref(json, ref).kind
ScalarRefs == {r \in AllRefs : KindAt(r) = "Scalar"}
ParentRef(ref) == SubSeq(ref, 1, Len(ref) - 1)

IsPrefix(a, b) == Len(a) <= Len(b) /\ SubSeq(b, 1, Len(a)) = a
IsAncestor(a, b) == IsPrefix(a, b) /\ a # b

\* a and b lie in the subtrees of two children of one node, a's child first.
EarlierSibling(a, b) ==
    \E k \in 1..Len(a) :
        /\ k <= Len(b)
        /\ SubSeq(a, 1, k - 1) = SubSeq(b, 1, k - 1)
        /\ a[k] < b[k]

YieldedRefs == {yielded[i].value : i \in 1..Len(yielded)}
PoppedRefs == {popped[i] : i \in 1..Len(popped)}

\* next() has reported the end of the traversal.
Drained == nones >= 1

IsPreset == style \in {PresetStyle_into_Style(p) : p \in PresetStyle}

\* The node kinds the style lets through.
Emitted(kind) ==
    \/ kind = "Scalar"
    \/ kind = "Object" /\ ~style.skip_object_parents
    \/ kind = "Array" /\ ~style.skip_array_parents

\* The array positions crossed from the root to ref, counted from 0.
RECURSIVE IndicesOf(_, _)
IndicesOf(node, ref) ==
    IF ref = <<>> THEN <<>>
    ELSE (IF node.kind = "Array" THEN <<Head(ref) - 1>> ELSE <<>>)
         \o IndicesOf(node.kids[Head(ref)], Tail(ref))

(***************************************************************************)
(* C1. Under every style the Elements come out in pre-order: a yielded     *)
(* container comes before each of its descendants, and every node of an    *)
(* earlier child's subtree comes before every node of a later sibling's    *)
(* subtree, siblings in key order / index order.                           *)
(***************************************************************************)
PreOrderYield ==
    \A i, j \in 1..Len(yielded) :
        LET a == yielded[i].value
            b == yielded[j].value
        IN  /\ IsAncestor(a, b) => i < j
            /\ EarlierSibling(a, b) => i < j

\* A container was yielded, then a grandchild of it, then a node of a later
\* sibling subtree.
PreOrderWitness ==
    \E i, j, k \in 1..Len(yielded) :
        /\ i < j /\ j < k
        /\ IsAncestor(yielded[i].value, yielded[j].value)
        /\ Len(yielded[j].value) = Len(yielded[i].value) + 2
        /\ EarlierSibling(yielded[j].value, yielded[k].value)

(***************************************************************************)
(* C2. With skip_object_parents = false and skip_array_parents = false the *)
(* drained iterator has yielded every node of the tree exactly once: the   *)
(* number of Elements is the node count.                                   *)
(***************************************************************************)
FullTraversalYieldsEveryNode ==
    (Drained /\ ~style.skip_object_parents /\ ~style.skip_array_parents) =>
        /\ YieldedRefs = AllRefs
        /\ Len(yielded) = NodeCount

\* A drained full traversal of a tree that holds an empty array, an object
\* and a scalar.
FullTraversalWitness ==
    /\ Drained /\ ~style.skip_object_parents /\ ~style.skip_array_parents
    /\ \E r \in AllRefs : KindAt(r) = "Array" /\ Deref(json, r).kids = <<>>
    /\ \E r \in AllRefs : KindAt(r) = "Object" /\ r # <<>>
    /\ \E r \in AllRefs : KindAt(r) = "Scalar"
    /\ Len(yielded) = MaxNodes

(***************************************************************************)
(* C3. Under the default style of Iter::new and under each preset only     *)
(* scalars are yielded, and the drained iterator has yielded every scalar  *)
(* exactly once; empty containers contribute nothing.                      *)
(***************************************************************************)
PresetYieldsExactlyScalars ==
    IsPreset =>
        /\ \A i \in 1..Len(yielded) : KindAt(yielded[i].value) = "Scalar"
        /\ Drained => /\ YieldedRefs = ScalarRefs
                      /\ Len(yielded) = Cardinality(ScalarRefs)

\* A preset other than the default drained a tree with an empty container
\* next to a scalar.
PresetWitness ==
    /\ IsPreset /\ style # PresetStyle_into_Style("SquareBrackets")
    /\ Drained
    /\ \E r \in AllRefs : KindAt(r) # "Scalar" /\ Deref(json, r).kids = <<>>
    /\ Len(yielded) >= 1

(***************************************************************************)
(* C4. The indices of a yielded Element are the positions, in root-to-node *)
(* order, of the path's child inside each array crossed on the way; object *)
(* keys add no entry, and an array node carries only the indices of the    *)
(* arrays above it.                                                        *)
(***************************************************************************)
IndicesAreArrayPositions ==
    \A i \in 1..Len(yielded) :
        yielded[i].indices = IndicesOf(json, yielded[i].value)

\* An Element two arrays deep with two different positions, after the
\* yielded array that holds it, which carries one index only.
IndicesWitness ==
    \E i, j \in 1..Len(yielded) :
        /\ Len(yielded[j].indices) = 2
        /\ yielded[j].indices[1] # yielded[j].indices[2]
        /\ yielded[i].value = ParentRef(yielded[j].value)
        /\ Len(yielded[i].indices) = 1

(***************************************************************************)
(* C5. An object is yielded iff skip_object_parents is false, an array iff *)
(* skip_array_parents is false, a scalar always; the children of a         *)
(* suppressed container are still visited.                                 *)
(***************************************************************************)
FlagsFilterOwnKind ==
    /\ \A i \in 1..Len(yielded) : Emitted(KindAt(yielded[i].value))
    /\ Drained =>
        /\ \A r \in AllRefs : r \in YieldedRefs <=> Emitted(KindAt(r))
        /\ PoppedRefs = AllRefs

\* Objects suppressed and arrays emitted: an array below a suppressed object
\* was yielded, and so was a scalar below it.
FlagsWitness ==
    /\ Drained
    /\ style.skip_object_parents /\ ~style.skip_array_parents
    /\ KindAt(<<>>) = "Object"
    /\ \E i, j \in 1..Len(yielded) :
        /\ KindAt(yielded[i].value) = "Array"
        /\ KindAt(yielded[j].value) = "Scalar"
        /\ IsAncestor(yielded[i].value, yielded[j].value)

\* The text one step adds to the path: the delimiters of the parent's kind
\* around the key or the index, or around nothing when that text is hidden.
StepText(parent, i) ==
    IF parent.kind = "Object"
    THEN style.object_key_prefix
         \o (IF style.object_keys_in_path THEN parent.keys[i] ELSE <<>>)
         \o style.object_key_suffix
    ELSE style.array_key_prefix
         \o (IF style.array_keys_in_path THEN usize_to_string(i - 1) ELSE <<>>)
         \o style.array_key_suffix

\* The steps from node down to ref, concatenated.
RECURSIVE PathOf(_, _)
PathOf(node, ref) ==
    IF ref = <<>> THEN <<>>
    ELSE StepText(node, Head(ref)) \o PathOf(node.kids[Head(ref)], Tail(ref))

\* Two yielded Elements that are different items of one array.
ArraySiblings(a, b) ==
    /\ a.value # <<>> /\ b.value # <<>> /\ a.value # b.value
    /\ ParentRef(a.value) = ParentRef(b.value)
    /\ KindAt(ParentRef(a.value)) = "Array"

(***************************************************************************)
(* C6. Hiding the array indices changes the path text only: the indices    *)
(* list is still the list of array positions, each array step renders as   *)
(* array_key_prefix + array_key_suffix, and the items of one array get the *)
(* same path and pairwise different indices.                               *)
(***************************************************************************)
HiddenIndicesChangeOnlyPath ==
    ~style.array_keys_in_path =>
        /\ \A i \in 1..Len(yielded) :
            LET e == yielded[i]
            IN  /\ e.indices = IndicesOf(json, e.value)
                /\ (e.value # <<>> /\ KindAt(ParentRef(e.value)) = "Array") =>
                     e.path = PathOf(json, ParentRef(e.value))
                              \o style.array_key_prefix \o style.array_key_suffix
        /\ \A i, j \in 1..Len(yielded) :
            ArraySiblings(yielded[i], yielded[j]) =>
                /\ yielded[i].path = yielded[j].path
                /\ yielded[i].indices # yielded[j].indices

\* Indices hidden, delimiters # and $: two items of an array inside an array
\* were yielded.
HiddenIndicesWitness ==
    /\ ~style.array_keys_in_path
    /\ style.array_key_prefix = <<"#">>
    /\ \E i, j \in 1..Len(yielded) :
        /\ ArraySiblings(yielded[i], yielded[j])
        /\ Len(yielded[i].indices) = 2

(***************************************************************************)
(* C7. The path of the root is empty and every other path is the parent's  *)
(* path followed by one step: prefix + key + suffix under an object key,   *)
(* prefix + suffix when object keys are hidden; so a path is the           *)
(* concatenation of the steps from the root to the node.                   *)
(***************************************************************************)
PathIsConcatenationOfSteps ==
    \A i \in 1..Len(yielded) :
        LET e == yielded[i]
        IN  /\ e.path = PathOf(json, e.value)
            /\ e.value = <<>> => e.path = <<>>
            /\ (e.value # <<>> /\ KindAt(ParentRef(e.value)) = "Object") =>
                 e.path = PathOf(json, ParentRef(e.value))
                          \o style.object_key_prefix
                          \o (IF style.object_keys_in_path
                              THEN Deref(json, ParentRef(e.value)).keys[e.value[Len(e.value)]]
                              ELSE <<>>)
                          \o style.object_key_suffix

\* Keys hidden: a node two object keys deep was yielded, and so was the root.
PathWitness ==
    /\ ~style.object_keys_in_path
    /\ style.object_key_prefix # <<>>
    /\ \E i, j \in 1..Len(yielded) :
        /\ yielded[i].value = <<>>
        /\ Len(yielded[j].value) = 2
        /\ KindAt(ParentRef(yielded[j].value)) = "Object"
        /\ yielded[j].path = style.object_key_prefix \o style.object_key_suffix
                             \o style.object_key_prefix \o style.object_key_suffix

(***************************************************************************)
(* C8. A scalar root gives exactly one Element, with the empty path, no    *)
(* indices and the root as its value, and then None, under every style.    *)
(***************************************************************************)
ScalarRootYieldsOnce ==
    KindAt(<<>>) = "Scalar" =>
        /\ ~running
        /\ calls = 0 => yielded = <<>>
        /\ calls = 1 => result = Some(Element(<<>>, <<>>, <<>>))
        /\ calls >= 1 => yielded = <<Element(<<>>, <<>>, <<>>)>>
        /\ calls >= 2 => result = None /\ items = <<>>

\* A scalar root under a style that includes both parent kinds, after the
\* Element and a None.
ScalarRootWitness ==
    /\ KindAt(<<>>) = "Scalar"
    /\ ~style.skip_object_parents /\ ~style.skip_array_parents
    /\ calls = 2
    /\ result = None

(***************************************************************************)
(* C9. Once next() has returned None, every later call returns None too,   *)
(* the queue stays empty and nothing more is yielded.                      *)
(***************************************************************************)
ReturnedNone == ~running /\ calls > 0 /\ result = None

ExhaustionIsPermanent ==
    [][ReturnedNone =>
          /\ items = <<>> /\ items' = <<>>
          /\ yielded' = yielded
          /\ ReturnedNone'
          /\ calls' = calls + 1]_vars

\* Two calls in a row returned None after something was yielded.
ExhaustionWitness ==
    /\ ReturnedNone
    /\ nones = MaxNones
    /\ Len(yielded) >= 2

(***************************************************************************)
(* C10. The traversal terminates: every call of next() that has started    *)
(* returns; every turn of its loop pops one entry or finds the queue empty *)
(* and returns None; the entries popped never exceed the node count N and  *)
(* are exactly N once None is returned; at most N calls return an Element  *)
(* and after the N-th the queue is empty.                                  *)
(***************************************************************************)
TraversalTerminates ==
    /\ running ~> ~running
    /\ [](/\ Len(popped) <= NodeCount
          /\ Len(yielded) <= NodeCount
          /\ Len(popped) = Cardinality(PoppedRefs)
          /\ Drained => Len(popped) = NodeCount
          /\ Len(yielded) = NodeCount => items = <<>>)
    /\ [][\/ style' # style
          \/ Len(popped') = Len(popped) + 1
          \/ items = <<>> /\ ~running' /\ result' = None]_vars

\* A call passed over two suppressed containers before it returned a node;
\* all nodes of a tree of the largest size were popped and None was returned.
TerminationWitness ==
    /\ Drained
    /\ NodeCount = MaxNodes
    /\ Len(yielded) = MaxNodes - 2
    /\ Len(popped) = MaxNodes

(***************************************************************************)
(* Vocabulary of the builder properties: the tables of the document.       *)
(***************************************************************************)
StyleOf(okp, oks, akp, aks, keys, indices, skipObjects, skipArrays) ==
    [object_key_prefix |-> okp, object_key_suffix |-> oks,
     object_keys_in_path |-> keys, skip_object_parents |-> skipObjects,
     array_key_prefix |-> akp, array_key_suffix |-> aks,
     array_keys_in_path |-> indices, skip_array_parents |-> skipArrays]

\* The preset table.
PresetTable(p) ==
    CASE p = "SquareBrackets" ->
            StyleOf(<<"[", "\"">>, <<"\"", "]">>, <<"[">>, <<"]">>, TRUE, TRUE, TRUE, TRUE)
      [] p = "CommonJs" ->
            StyleOf(<<".">>, <<>>, <<"[">>, <<"]">>, TRUE, TRUE, TRUE, TRUE)
      [] p = "PostgresJson" ->
            StyleOf(<<"-", ">", "'">>, <<"'">>, <<"-", ">">>, <<>>, TRUE, TRUE, TRUE, TRUE)

\* The documented defaults of the eight options.
DefaultStyle ==
    StyleOf(<<"[", "\"">>, <<"\"", "]">>, <<"[">>, <<"]">>, TRUE, TRUE, TRUE, TRUE)

Chars == {"[", "]", "\"", ".", "-", ">", "'", "!", "@", "#", "$"}
IsText(t) == DOMAIN t = 1..Len(t) /\ \A i \in 1..Len(t) : t[i] \in Chars
StringOptions ==
    {"object_key_prefix", "object_key_suffix", "array_key_prefix", "array_key_suffix"}

\* A Style with every field concrete.
IsStyle(s) ==
    /\ DOMAIN s = Options
    /\ \A o \in StringOptions : IsText(s[o])
    /\ \A o \in Options \ StringOptions : s[o] \in BOOLEAN

(***************************************************************************)
(* C11. Converting a PresetStyle to a Style gives the row of the preset    *)
(* table: the delimiters of the preset, keys and indices shown in the      *)
(* path, object and array parents skipped.                                 *)
(***************************************************************************)
PresetsReproduceTable ==
    (hist.built /\ hist.preset \in PresetStyle) =>
        /\ style = PresetTable(hist.preset)
        /\ style = PresetStyle_into_Style(hist.preset)

\* The PostgresJson preset was converted, built and handed to use_style.
PresetTableWitness ==
    /\ hist.built
    /\ hist.preset = "PostgresJson"
    /\ style.array_key_suffix = <<>>

(***************************************************************************)
(* C12. build() is total: for every builder state it gives a Style with    *)
(* all fields concrete, an unset option taking its default; so             *)
(* StyleBuilder::new().build() is the SquareBrackets preset, the style     *)
(* Iter::new installs.                                                     *)
(***************************************************************************)
BuildResolvesDefaults ==
    /\ ~hist.built => style = PresetTable("SquareBrackets")
    /\ hist.built =>
        /\ IsStyle(style)
        /\ \A o \in Options :
            style[o] = IF builder[o] = None THEN DefaultStyle[o] ELSE builder[o][1]
        /\ builder = StyleBuilder_new => style = PresetStyle_into_Style("SquareBrackets")

\* A builder with only the array prefix set was built: seven defaults.
BuildDefaultsWitness ==
    /\ hist.built
    /\ builder = array_key_prefix(StyleBuilder_new, <<"!">>)
    /\ style.skip_object_parents /\ style.object_key_prefix = <<"[", "\"">>

(***************************************************************************)
(* C13. Every setter and every default_* call changes the one option it is *)
(* about and leaves the other seven as they were; so build() gives each    *)
(* option the argument of the last call on it, or the default when that    *)
(* call was a default_* call or no call was made, also for a chain that    *)
(* starts from a preset's builder.                                         *)
(***************************************************************************)
LastCallWins ==
    /\ [](hist.built =>
            \A o \in Options :
                style[o] = IF hist.last[o] = None THEN DefaultStyle[o]
                           ELSE hist.last[o][1])
    /\ [][hist'.preset = "none" =>
            \A o \in Options :
                builder'[o] = IF hist'.last[o] # hist.last[o] THEN hist'.last[o]
                              ELSE builder[o]]_vars

\* A chain from the PostgresJson builder that reset the array prefix and
\* included the array parents, then built.
LastCallWinsWitness ==
    /\ hist.built
    /\ hist.preset = "none"
    /\ style.object_key_prefix = <<"-", ">", "'">>
    /\ hist.last["array_key_prefix"] = None /\ style.array_key_prefix = <<"[">>
    /\ hist.last["skip_array_parents"] = Some(FALSE) /\ ~style.skip_array_parents
    /\ style.array_key_suffix = <<"!">>

(***************************************************************************)
(* C14, as claimed. A configuration under which distinct keys render the   *)
(* same path is rejected by build() with a configuration error.            *)
(***************************************************************************)
\* Two distinct keys, or two distinct indices, get the same path.
RendersIdenticalPaths(s) ==
    \/ object_format(s, <<>>, KeyList[1]) = object_format(s, <<>>, KeyList[2])
    \/ array_format(s, <<>>, 0) = array_format(s, <<>>, 1)

HidesKeysOrIndices ==
    \/ builder.object_keys_in_path = Some(FALSE)
    \/ builder.array_keys_in_path = Some(FALSE)

AmbiguousConfigurationRejected ==
    (hist.built /\ HidesKeysOrIndices) => ~IsStyle(style)

(***************************************************************************)
(* C14, amended. build() never rejects a configuration: for every builder  *)
(* state, also one that hides the keys or the indices so that distinct     *)
(* keys or indices render the same path, it returns a Style, and that      *)
(* Style renders the identical paths.                                      *)
(***************************************************************************)
BuildNeverRejects ==
    hist.built =>
        /\ IsStyle(style)
        /\ HidesKeysOrIndices => RendersIdenticalPaths(style)

\* Empty object delimiters with the keys hidden were built into a Style.
BuildNeverRejectsWitness ==
    /\ hist.built
    /\ builder.object_keys_in_path = Some(FALSE)
    /\ builder.object_key_prefix = Some(<<>>)
    /\ builder.object_key_suffix = Some(<<>>)
    /\ IsStyle(style)
    /\ object_format(style, <<>>, KeyList[1]) = <<>>

(***************************************************************************)
(* C17, as the doc comments of the four parent setters state it. A style   *)
(* built after skip_object_parents() has the objects yielded, one built    *)
(* after include_object_parents() has no object yielded; a style built     *)
(* after skip_array_parents() has the arrays yielded, one built after      *)
(* include_array_parents() has no array yielded.                           *)
(***************************************************************************)
\* Builders a parent setter is chained on.
SampleBuilders ==
    {StyleBuilder_new, CustomBuilder}
    \cup {PresetStyle_into_StyleBuilder(p) : p \in PresetStyle}
    \cup {WithFlags(CustomBuilder, ok, so, ak, sa) :
            ok \in BOOLEAN, so \in BOOLEAN, ak \in BOOLEAN, sa \in BOOLEAN}

RefsOfKind(kind) == {ref \in AllRefs : KindAt(ref) = kind}

AllYielded(kind) == RefsOfKind(kind) \subseteq YieldedRefs
NoneYielded(kind) == RefsOfKind(kind) \cap YieldedRefs = {}

ParentSettersDoAsDocumented ==
    Drained =>
        /\ (\E b \in SampleBuilders : style = build(skip_object_parents(b)))
                => AllYielded("Object")
        /\ (\E b \in SampleBuilders : style = build(include_object_parents(b)))
                => NoneYielded("Object")
        /\ (\E b \in SampleBuilders : style = build(skip_array_parents(b)))
                => AllYielded("Array")
        /\ (\E b \in SampleBuilders : style = build(include_array_parents(b)))
                => NoneYielded("Array")

(***************************************************************************)
(* C19. The queue starts as the one entry (root, "", no indices). Between  *)
(* calls of next() its entries are roots of pairwise disjoint subtrees in  *)
(* document order; every node is either popped already or lies under       *)
(* exactly one queue entry; no node is popped twice, and a yielded Element *)
(* is not in the queue.                                                    *)
(***************************************************************************)
Min(a, b) == IF a <= b THEN a ELSE b

\* Neither node is in the other's subtree, and `a` comes first in the document.
DocBefore(a, b) ==
    \E k \in 1..Min(Len(a), Len(b)) :
        /\ SubSeq(a, 1, k - 1) = SubSeq(b, 1, k - 1)
        /\ a[k] < b[k]

QueueEntriesAbove(ref) == {i \in 1..Len(items) : IsPrefix(items[i].value, ref)}

WorkQueueInvariant ==
    /\ (calls = 0 /\ ~running) => items = <<Element(<<>>, <<>>, <<>>)>>
    /\ ~running =>
        /\ \A i, j \in 1..Len(items) :
            i < j => DocBefore(items[i].value, items[j].value)
        /\ \A ref \in AllRefs :
            IF ref \in PoppedRefs
            THEN QueueEntriesAbove(ref) = {}
            ELSE Cardinality(QueueEntriesAbove(ref)) = 1
        /\ \A i, j \in 1..Len(popped) : popped[i] = popped[j] => i = j
        /\ \A i \in 1..Len(items) :
            /\ items[i].value \in AllRefs
            /\ items[i].value \notin YieldedRefs

\* Between two calls, with an Element yielded, a container popped and two
\* subtrees still queued.
WorkQueueWitness ==
    /\ ~running
    /\ Len(items) >= 2
    /\ yielded # <<>>
    /\ Len(popped) >= 2
    /\ \E i \in 1..Len(items) : KindAt(items[i].value) # "Scalar"

(***************************************************************************)
(* Vocabulary of the two-Iter properties.                                  *)
(***************************************************************************)
EmittedBy(s, kind) ==
    \/ kind = "Scalar"
    \/ kind = "Object" /\ ~s.skip_object_parents
    \/ kind = "Array" /\ ~s.skip_array_parents

\* The sequence one Iter yields alone: the pre-order walk of the tree.
RECURSIVE Walk(_, _, _, _), WalkKids(_, _, _, _, _)
Walk(s, path, indices, ref) ==
    LET node == Deref(json, ref)
    IN  (IF EmittedBy(s, node.kind) THEN <<Element(path, indices, ref)>> ELSE <<>>)
        \o WalkKids(s, path, indices, ref, 1)

WalkKids(s, path, indices, ref, i) ==
    LET node == Deref(json, ref)
    IN  IF i > Len(node.kids) THEN <<>>
        ELSE (IF node.kind = "Object"
              THEN Walk(s, object_format(s, path, node.keys[i]), indices, ref \o <<i>>)
              ELSE Walk(s, array_format(s, path, i - 1), indices \o <<i - 1>>,
                        ref \o <<i>>))
             \o WalkKids(s, path, indices, ref, i + 1)

Alone(s) == Walk(s, <<>>, <<>>, <<>>)

OtherDrained == other.nones >= 1

(***************************************************************************)
(* C15. Two Iters over one tree do not interfere: under every interleaving *)
(* of their next() calls each has yielded a prefix of the sequence it      *)
(* yields alone, and all of it once drained; no pull changes the tree.     *)
(***************************************************************************)
IteratorsDoNotInterfere ==
    /\ [](/\ IsPrefix(yielded, Alone(style))
          /\ IsPrefix(other.yielded, Alone(other.style))
          /\ Drained => yielded = Alone(style)
          /\ OtherDrained => other.yielded = Alone(other.style))
    /\ [][json' = json]_vars

\* The first Iter is drained while the second, differently styled, is part
\* of the way through.
NoInterferenceWitness ==
    /\ Drained
    /\ ~OtherDrained
    /\ other.style # style
    /\ other.yielded # <<>>
    /\ Len(other.yielded) < Len(Alone(other.style))
    /\ Len(yielded) >= 2

(***************************************************************************)
(* C16. Traversal is deterministic: two fresh Iters over one tree with     *)
(* equal styles yield equal Elements at every position, and sequences of   *)
(* equal length once both are drained.                                     *)
(***************************************************************************)
TraversalIsDeterministic ==
    other.style = style =>
        /\ \A i \in 1..Min(Len(yielded), Len(other.yielded)) :
            /\ yielded[i].path = other.yielded[i].path
            /\ yielded[i].indices = other.yielded[i].indices
            /\ yielded[i].value = other.yielded[i].value
        /\ (Drained /\ OtherDrained) => Len(yielded) = Len(other.yielded)

\* Both Iters, equally styled, are drained after three Elements each.
DeterminismWitness ==
    /\ other.style = style
    /\ Drained /\ OtherDrained
    /\ Len(yielded) = 3
    /\ KindAt(<<>>) = "Object" /\ Len(json.kids) = 2

(***************************************************************************)
(* C18. The skip flags are a pure filter: with delimiters and visibility   *)
(* fixed, the sequence yielded under any setting of the two flags is the   *)
(* sequence yielded with both flags false, less the Elements whose node is *)
(* of a suppressed kind; what remains is unchanged and in the same order.  *)
(***************************************************************************)
WithBothIncluded(s) ==
    [s EXCEPT !.skip_object_parents = FALSE, !.skip_array_parents = FALSE]

KeptByStyle(el) == Emitted(KindAt(el.value))

SkipFlagsArePureFilter ==
    (other.style = WithBothIncluded(style) /\ Drained /\ OtherDrained) =>
        yielded = SelectSeq(other.yielded, KeptByStyle)

\* Objects suppressed, arrays kept: three Elements in full, two after the filter.
PureFilterWitness ==
    /\ other.style = WithBothIncluded(style)
    /\ style.skip_object_parents /\ ~style.skip_array_parents
    /\ Drained /\ OtherDrained
    /\ Len(other.yielded) = 3
    /\ Len(yielded) = 2

(***************************************************************************)
(* C20. use_style replaces the style and nothing else, also after some     *)
(* next() calls: the queue keeps its entries with the paths they were      *)
(* given, and a later pop formats the popped container's children, and     *)
(* decides whether to yield the container, with the style of that moment.  *)
(***************************************************************************)
\* The path the style s gives the i-th child of a container at `path`.
ChildPath(s, path, node, i) ==
    IF node.kind = "Object" THEN object_format(s, path, node.keys[i])
    ELSE array_format(s, path, i - 1)

UseStyleKeepsQueue ==
    /\ [][style' # style =>
            /\ items' = items
            /\ yielded' = yielded
            /\ json' = json]_vars
    /\ [][(items # <<>> /\ popped' # popped) =>
            LET el == Head(items)
                node == Deref(json, el.value)
                n == Len(node.kids)
            IN  /\ style' = style
                /\ Len(items') = Len(items) - 1 + n
                /\ SubSeq(items', n + 1, Len(items')) = Tail(items)
                /\ \A i \in 1..n : items'[i].path = ChildPath(style, el.path, node, i)
                /\ (yielded' # yielded) <=> EmittedBy(style, node.kind)]_vars

\* The paths of the Elements each style of RestyleStyles yields on its own.
PathsAlone(s) == {Alone(s)[i].path : i \in 1..Len(Alone(s))}

\* An Element was yielded whose path is no single style's: its first step
\* was formatted before a use_style call and its second step after it.
RestyleWitness ==
    /\ ~running
    /\ calls > 0
    /\ \E i \in 1..Len(yielded) :
        /\ Len(yielded[i].value) = 2
        /\ \A s \in RestyleStyles : yielded[i].path \notin PathsAlone(s)

(***************************************************************************)
(* C21, as claimed. Every representation of the named presets agrees with  *)
(* the preset table: converted through Styles, JsonKeyPathStyles or        *)
(* PresetStyle, each preset has the delimiters of its row, shows the       *)
(* indices in the path and skips the container parents; Custom(s) converts *)
(* to a style equal to s field by field.                                   *)
(***************************************************************************)
IndicesShown(s) ==
    IF "indices_in_path" \in DOMAIN s THEN s.indices_in_path ELSE s.array_keys_in_path

ParentsSkipped(s) ==
    IF "skip_parents" \in DOMAIN s THEN s.skip_parents
    ELSE s.skip_object_parents /\ s.skip_array_parents

PresetRepresentationsAgree ==
    converted # None =>
        LET c == converted[1]
        IN  IF c.input.tag = "Custom"
            THEN c.output = c.input.style
            ELSE /\ \A o \in StringOptions : c.output[o] = PresetTable(c.input.tag)[o]
                 /\ IndicesShown(c.output)
                 /\ ParentsSkipped(c.output)

(***************************************************************************)
(* C22. In the combined-flag builder, skip_parents() suppresses every      *)
(* object and array and show_parents() emits every one, the last call      *)
(* winning, and the same for show_/hide_indices_in_path(); build() returns *)
(* Ok for every builder state, unset strings resolved to the empty string, *)
(* indices shown and parents not skipped unless called otherwise; with     *)
(* indices hidden and parents skipped only scalars are yielded, their      *)
(* paths carry no index text and their indices are still recorded.         *)
(***************************************************************************)
\* What the last call on a flag asks for, the default when none was made.
LastFlag(flag, default) ==
    IF iterBuilder.last[flag] = None THEN default ELSE iterBuilder.last[flag][1]

\* The path of ref with every array step rendered without its index.
RECURSIVE PathWithoutIndexText(_, _)
PathWithoutIndexText(node, ref) ==
    IF ref = <<>> THEN <<>>
    ELSE (IF node.kind = "Object"
          THEN style.object_key_prefix \o node.keys[Head(ref)] \o style.object_key_suffix
          ELSE style.array_key_prefix \o style.array_key_suffix)
         \o PathWithoutIndexText(node.kids[Head(ref)], Tail(ref))

BuildResolves ==
    LET b == iterBuilder.b
        r == JsonKeyPathIterBuilder_build(b, json)
    IN  /\ r.ok
        /\ \A o \in StringOptions :
            r.value.style[o] = IF b[o] = None THEN <<>> ELSE b[o][1]
        /\ r.value.items[1].path = (IF b.base_path = None THEN <<>> ELSE b.base_path[1])
        /\ r.value.style.array_keys_in_path = LastFlag("indices_in_path", TRUE)
        /\ r.value.style.skip_object_parents = LastFlag("skip_parents", FALSE)
        /\ r.value.style.skip_array_parents = LastFlag("skip_parents", FALSE)
        /\ style' = r.value.style
        /\ items' = r.value.items

CombinedFlagBuilder ==
    /\ [](~iterBuilder.built => JsonKeyPathIterBuilder_build(iterBuilder.b, json).ok)
    /\ [][(~iterBuilder.built /\ iterBuilder'.built) => BuildResolves]_vars
    /\ [](iterBuilder.built =>
            /\ \A i \in 1..Len(yielded) :
                LastFlag("skip_parents", FALSE) => KindAt(yielded[i].value) = "Scalar"
            /\ Drained =>
                YieldedRefs = IF LastFlag("skip_parents", FALSE) THEN ScalarRefs
                              ELSE AllRefs
            /\ \A i \in 1..Len(yielded) :
                LET e == yielded[i]
                IN  /\ e.indices = IndicesOf(json, e.value)
                    /\ e.path = IF LastFlag("indices_in_path", TRUE)
                                THEN PathOf(json, e.value)
                                ELSE PathWithoutIndexText(json, e.value))

\* As in the example: the four delimiters set, hide_indices_in_path() and
\* skip_parents() called last, built and drained; a scalar inside an array
\* inside an object came out with the path !a@#$ and one index.
CombinedFlagWitness ==
    /\ iterBuilder.built
    /\ iterBuilder.last = [indices_in_path |-> Some(FALSE), skip_parents |-> Some(TRUE)]
    /\ Drained
    /\ KindAt(<<>>) = "Object"
    /\ \E i \in 1..Len(yielded) :
        /\ yielded[i].path = <<"!", "a", "@", "#", "$">>
        /\ yielded[i].indices = <<0>>
    /\ Len(yielded) = Cardinality(ScalarRefs)

====
